---- MODULE Spec2Model ----
(***************************************************************************)
(* The caching Lambda of the Prebid Server deployment                      *)
(* (source/infrastructure/prebid_server/cache_lambda/cache_access.py):      *)
(* the request router, the health-check, get and post handlers, and the    *)
(* cache backend they talk to (get, setex, ttl, ping with key expiry).     *)
(*                                                                         *)
(* Texts (request bodies, stored values, response bodies) are TLA+ strings *)
(* and json.loads / json.dumps / int() work on them character by           *)
(* character.  A Python value is a tagged tuple:                           *)
(*   <<"null">>  <<"bool", b>>  <<"int", n>>  <<"str", s>>                 *)
(*   <<"list", <<v1, ..>>>>  <<"dict", << <<k1, v1>>, .. >>>>              *)
(* (a dict keeps its keys in insertion order, as Python's does).           *)
(* A call that may raise returns <<"return", v>> or <<"raise", name>>.     *)
(***************************************************************************)
EXTENDS Integers, Sequences, FiniteSets, TLC

\* ------------------------------------------------------------ constants

ALLOWED_TYPES == {"xml", "json"}
DEFAULT_TTL_SECONDS == 300
TTL_MAX_SECONDS == 3600

\* ------------------------------------------------------- Python values

PyNone == <<"null">>
PyBool(b) == <<"bool", b>>
PyInt(n) == <<"int", n>>
PyStr(s) == <<"str", s>>
PyList(xs) == <<"list", xs>>
PyDict(kvs) == <<"dict", kvs>>

Tag(v) == v[1]

Return(v) == <<"return", v>>
Raise(name) == <<"raise", name>>
Raised(r) == r[1] = "raise"
Val(r) == r[2]

\* isinstance(v, dict), isinstance(v, list)
IsDict(v) == Tag(v) = "dict"
IsList(v) == Tag(v) = "list"

\* k in d
HasKey(d, k) == \E i \in 1..Len(d[2]) : d[2][i][1] = k

\* d[k] for a key that is present
DictGet(d, k) == d[2][CHOOSE i \in 1..Len(d[2]) : d[2][i][1] = k][2]

\* d.get(k, default)
DictGetDefault(d, k, default) == IF HasKey(d, k) THEN DictGet(d, k) ELSE default

\* d[k] = v: a new key is appended, a present key keeps its position
DictSet(d, k, v) ==
    IF HasKey(d, k)
    THEN PyDict([i \in 1..Len(d[2]) |-> IF d[2][i][1] = k THEN <<k, v>> ELSE d[2][i]])
    ELSE PyDict(Append(d[2], <<k, v>>))

\* ------------------------------------------------------------- strings

At(s, i) == IF i >= 1 /\ i <= Len(s) THEN SubSeq(s, i, i) ELSE ""

Digits == <<"0", "1", "2", "3", "4", "5", "6", "7", "8", "9">>
IsDigit(c) == \E d \in 1..10 : Digits[d] = c
DigitVal(c) == (CHOOSE d \in 1..10 : Digits[d] = c) - 1
IsSpace(c) == c \in {" ", "\t", "\n", "\r"}

RECURSIVE NatStr(_)
NatStr(n) == IF n < 10 THEN Digits[n + 1] ELSE NatStr(n \div 10) \o Digits[(n % 10) + 1]

\* str(n) of an int
IntStr(n) == IF n < 0 THEN "-" \o NatStr(-n) ELSE NatStr(n)

\* the end of the run of digits that starts at i (i itself when there is none)
RECURSIVE DigitsEnd(_, _)
DigitsEnd(s, i) == IF IsDigit(At(s, i)) THEN DigitsEnd(s, i + 1) ELSE i

\* the value of the digits s[i..j-1], most significant first
RECURSIVE DigitsVal(_, _, _, _)
DigitsVal(s, i, j, acc) ==
    IF i >= j THEN acc ELSE DigitsVal(s, i + 1, j, (10 * acc) + DigitVal(At(s, i)))

RECURSIVE SkipWs(_, _)
SkipWs(s, i) == IF IsSpace(At(s, i)) THEN SkipWs(s, i + 1) ELSE i

RECURSIVE SkipWsBack(_, _)
SkipWsBack(s, j) == IF IsSpace(At(s, j)) THEN SkipWsBack(s, j - 1) ELSE j

\* int(s) of a str: surrounding whitespace, an optional sign, decimal digits
IntOfStr(s) ==
    LET a == SkipWs(s, 1)
        z == SkipWsBack(s, Len(s))
        signed == At(s, a) \in {"+", "-"}
        d == IF signed THEN a + 1 ELSE a
        e == DigitsEnd(s, d)
    IN  IF e > d /\ e = z + 1
        THEN Return(IF At(s, a) = "-" THEN 0 - DigitsVal(s, d, e, 0) ELSE DigitsVal(s, d, e, 0))
        ELSE Raise("ValueError")

\* int(v) of a Python value
PyIntOf(v) ==
    CASE Tag(v) = "int" -> Return(v[2])
      [] Tag(v) = "bool" -> Return(IF v[2] THEN 1 ELSE 0)
      [] Tag(v) = "str" -> IntOfStr(v[2])
      [] OTHER -> Raise("TypeError")

\* ---------------------------------------------------------- json.dumps

RECURSIVE EscapeFrom(_, _)
EscapeFrom(s, i) ==
    IF i > Len(s) THEN ""
    ELSE (IF At(s, i) \in {"\"", "\\"} THEN "\\" \o At(s, i) ELSE At(s, i)) \o EscapeFrom(s, i + 1)

Quote(s) == "\"" \o EscapeFrom(s, 1) \o "\""

RECURSIVE json_dumps(_), DumpItems(_, _), DumpMembers(_, _)
json_dumps(v) ==
    CASE Tag(v) = "null" -> "null"
      [] Tag(v) = "bool" -> (IF v[2] THEN "true" ELSE "false")
      [] Tag(v) = "int" -> IntStr(v[2])
      [] Tag(v) = "str" -> Quote(v[2])
      [] Tag(v) = "list" -> "[" \o DumpItems(v[2], 1) \o "]"
      [] Tag(v) = "dict" -> "{" \o DumpMembers(v[2], 1) \o "}"

DumpItems(xs, i) ==
    IF i > Len(xs) THEN ""
    ELSE (IF i > 1 THEN ", " ELSE "") \o json_dumps(xs[i]) \o DumpItems(xs, i + 1)

DumpMembers(kvs, i) ==
    IF i > Len(kvs) THEN ""
    ELSE (IF i > 1 THEN ", " ELSE "") \o Quote(kvs[i][1]) \o ": " \o json_dumps(kvs[i][2])
         \o DumpMembers(kvs, i + 1)

\* ---------------------------------------------------------- json.loads

\* A parse step returns [ok, val, pos]: the value read and the index after it.
Parsed(v, p) == [ok |-> TRUE, val |-> v, pos |-> p]
NoParse == [ok |-> FALSE, val |-> PyNone, pos |-> 0]

\* the body of a string literal from i (after the opening quote)
RECURSIVE ParseChars(_, _, _)
ParseChars(s, i, acc) ==
    LET c == At(s, i)
    IN  CASE c = "" -> NoParse
          [] c = "\"" -> Parsed(acc, i + 1)
          [] c = "\\" -> (IF At(s, i + 1) \in {"\"", "\\", "/"}
                          THEN ParseChars(s, i + 2, acc \o At(s, i + 1))
                          ELSE NoParse)
          [] OTHER -> ParseChars(s, i + 1, acc \o c)

\* an integer literal at i: -?(0|[1-9][0-9]*), with no fraction or exponent
ParseNumber(s, i) ==
    LET d == IF At(s, i) = "-" THEN i + 1 ELSE i
        e == DigitsEnd(s, d)
    IN  IF e = d \/ (At(s, d) = "0" /\ e > d + 1) \/ At(s, e) \in {".", "e", "E"}
        THEN NoParse
        ELSE Parsed(PyInt(IF d > i THEN 0 - DigitsVal(s, d, e, 0) ELSE DigitsVal(s, d, e, 0)), e)

RECURSIVE ParseValue(_, _), ParseItems(_, _, _), ParseMembers(_, _, _)
ParseValue(s, i0) ==
    LET i == SkipWs(s, i0)
        c == At(s, i)
    IN  CASE c = "{" ->
               (IF At(s, SkipWs(s, i + 1)) = "}"
                THEN Parsed(PyDict(<<>>), SkipWs(s, i + 1) + 1)
                ELSE ParseMembers(s, i + 1, PyDict(<<>>)))
          [] c = "[" ->
               (IF At(s, SkipWs(s, i + 1)) = "]"
                THEN Parsed(PyList(<<>>), SkipWs(s, i + 1) + 1)
                ELSE ParseItems(s, i + 1, <<>>))
          [] c = "\"" ->
               (LET r == ParseChars(s, i + 1, "")
                IN  IF r.ok THEN Parsed(PyStr(r.val), r.pos) ELSE NoParse)
          [] c = "-" \/ IsDigit(c) -> ParseNumber(s, i)
          [] c = "n" -> (IF i + 3 <= Len(s) /\ SubSeq(s, i, i + 3) = "null"
                         THEN Parsed(PyNone, i + 4) ELSE NoParse)
          [] c = "t" -> (IF i + 3 <= Len(s) /\ SubSeq(s, i, i + 3) = "true"
                         THEN Parsed(PyBool(TRUE), i + 4) ELSE NoParse)
          [] c = "f" -> (IF i + 4 <= Len(s) /\ SubSeq(s, i, i + 4) = "false"
                         THEN Parsed(PyBool(FALSE), i + 5) ELSE NoParse)
          [] OTHER -> NoParse

\* the elements of an array from i, up to and including the closing bracket
ParseItems(s, i, acc) ==
    LET r == ParseValue(s, i)
        j == SkipWs(s, r.pos)
    IN  IF ~r.ok THEN NoParse
        ELSE CASE At(s, j) = "," -> ParseItems(s, j + 1, Append(acc, r.val))
               [] At(s, j) = "]" -> Parsed(PyList(Append(acc, r.val)), j + 1)
               [] OTHER -> NoParse

\* the members of an object from i, up to and including the closing brace
ParseMembers(s, i, acc) ==
    LET k == SkipWs(s, i)
        key == IF At(s, k) = "\"" THEN ParseChars(s, k + 1, "") ELSE NoParse
        c == SkipWs(s, key.pos)
        r == IF key.ok /\ At(s, c) = ":" THEN ParseValue(s, c + 1) ELSE NoParse
        j == SkipWs(s, r.pos)
    IN  IF ~r.ok THEN NoParse
        ELSE CASE At(s, j) = "," -> ParseMembers(s, j + 1, DictSet(acc, key.val, r.val))
               [] At(s, j) = "}" -> Parsed(DictSet(acc, key.val, r.val), j + 1)
               [] OTHER -> NoParse

\* json.loads(s): the whole text must be one value
json_loads(s) ==
    LET r == ParseValue(s, 1)
    IN  IF r.ok /\ SkipWs(s, r.pos) = Len(s) + 1
        THEN Return(r.val)
        ELSE Raise("JSONDecodeError")

\* -------------------------------------------------------- request texts

\* one element of puts, as request text
ItemText(fields) == "{" \o fields \o "}"
Json300 == "\"type\":\"json\",\"value\":{\"test\":\"data\"},\"ttlseconds\":300,\"key\":\"test-key-123\""
Xml3600 == "\"type\": \"xml\", \"value\": \"<a/>\", \"ttlseconds\": \"3600\""
Json1 == "\"type\":\"json\",\"value\":[1,null],\"ttlseconds\":1"
Puts(items) == "{\"puts\":[" \o items \o "]}"

\* request bodies that pass validation
ValidBodies ==
    { Puts(ItemText(Json300)),
      Puts(ItemText(Xml3600) \o "," \o ItemText(Json1)),
      Puts("") }

\* request bodies that do not
InvalidBodies ==
    { "invalid json",
      "{\"invalid\":\"data\"}",
      "[1]",
      "{\"puts\":{\"type\":\"json\",\"value\":1}}",
      Puts("5"),
      Puts(ItemText("\"value\":1,\"ttlseconds\":300")),
      Puts(ItemText("\"type\":\"json\",\"ttlseconds\":300")),
      Puts(ItemText("\"type\":\"csv\",\"value\":1,\"ttlseconds\":300")),
      Puts(ItemText("\"type\":\"JSON\",\"value\":1,\"ttlseconds\":300")),
      Puts(ItemText("\"type\":[\"json\"],\"value\":1,\"ttlseconds\":300")),
      Puts(ItemText("\"type\":\"json\",\"value\":\"v\"")),
      Puts(ItemText("\"type\":\"json\",\"value\":1,\"ttlseconds\":0")),
      Puts(ItemText("\"type\":\"json\",\"value\":1,\"ttlseconds\":-5")),
      Puts(ItemText("\"type\":\"json\",\"value\":1,\"ttlseconds\":99999")),
      Puts(ItemText("\"type\":\"json\",\"value\":1,\"ttlseconds\":\"abc\"")),
      Puts(ItemText("\"type\":\"json\",\"value\":1,\"ttlseconds\":null")),
      Puts(ItemText(Json300) \o "," \o ItemText("\"type\":\"csv\",\"value\":1,\"ttlseconds\":300")) }

\* json.loads of the request texts, computed once
LoadsTable == [s \in ValidBodies \cup InvalidBodies |-> json_loads(s)]

\* json.loads(s), read from the table for a request text
Loads(s) == IF s \in DOMAIN LoadsTable THEN LoadsTable[s] ELSE json_loads(s)

\* not v: the values Python treats as false
Falsy(v) ==
    CASE Tag(v) = "null" -> TRUE
      [] Tag(v) = "bool" -> ~v[2]
      [] Tag(v) = "int" -> v[2] = 0
      [] Tag(v) = "str" -> v[2] = ""
      [] OTHER -> Len(v[2]) = 0

Uppers == "ABCDEFGHIJKLMNOPQRSTUVWXYZ"
Lowers == "abcdefghijklmnopqrstuvwxyz"
LowerChar(c) ==
    IF \E i \in 1..26 : At(Uppers, i) = c
    THEN At(Lowers, CHOOSE i \in 1..26 : At(Uppers, i) = c)
    ELSE c

\* s.lower()
RECURSIVE LowerFrom(_, _)
LowerFrom(s, i) == IF i > Len(s) THEN "" ELSE LowerChar(At(s, i)) \o LowerFrom(s, i + 1)

\* f"{v}" of a scalar (the repr of a list or a dict is not modelled: no
\* text of the model has one where it is formatted)
Format(v) ==
    CASE Tag(v) = "str" -> v[2]
      [] Tag(v) = "int" -> IntStr(v[2])
      [] Tag(v) = "bool" -> (IF v[2] THEN "True" ELSE "False")
      [] Tag(v) = "null" -> "None"

\* ------------------------------------------------------------ responses

\* {"statusCode": status, "body": json.dumps({"error": message})}
ErrorResponse(status, message) ==
    PyDict(<< <<"statusCode", PyInt(status)>>,
              <<"body", PyStr(json_dumps(PyDict(<< <<"error", PyStr(message)>> >>)))>> >>)

\* the error responses of the module
NotFound == ErrorResponse(404, "Not found")
MethodNotAllowed == ErrorResponse(405, "Method not allowed")
InternalServerError == ErrorResponse(500, "Internal server error")
MissingUuid == ErrorResponse(400, "Missing uuid parameter")
UuidNotFound == ErrorResponse(404, "Uuid not found")
InvalidFormat == ErrorResponse(500, "Invalid cached value format")

\* a variant of InvalidStructure that answers as if there were no entry
InvalidStructureAsNotFound == ErrorResponse(404, "Uuid not found")

InvalidStructure == ErrorResponse(500, "Invalid cached value structure")
CacheError == ErrorResponse(500, "Cache error")
MissingBody == ErrorResponse(400, "Missing request body")
InvalidBody == ErrorResponse(400, "Invalid request body")

StatusOf(resp) == DictGet(resp, "statusCode")[2]
BodyOf(resp) == DictGet(resp, "body")[2]

\* ------------------------------------------------------- cache backend

\* The cache maps each key that exists to its raw text and remaining seconds.
EmptyCache == [k \in {} |-> [raw |-> "", ttl |-> 0]]

\* EXISTS key
RedisHas(c, key) == key \in DOMAIN c

\* TTL key: the remaining seconds, -2 when the key does not exist
RedisTtl(c, key) == IF RedisHas(c, key) THEN c[key].ttl ELSE 0 - 2

\* SETEX key seconds value
RedisSetex(c, key, seconds, raw) ==
    [k \in DOMAIN c \cup {key} |-> IF k = key THEN [raw |-> raw, ttl |-> seconds] ELSE c[k]]

\* the cache after d more seconds: a key whose time has run out is gone
Expire(c, d) ==
    [k \in {j \in DOMAIN c : c[j].ttl > d} |-> [raw |-> c[k].raw, ttl |-> c[k].ttl - d]]

\* str(uuid.uuid4()): the n-th identifier the process generates
Uuid4(n) == "uuid-" \o IntStr(n)

\* ------------------------------------------------------------- handlers

\* What a handler did: its outcome (a response returned or an exception
\* raised), the cache and the identifier count it leaves, the metrics it
\* emitted and the backend operations it made, in order.
Done(out, c, n, ms, ops, route) ==
    [out |-> out, cache |-> c, nuuid |-> n, metrics |-> ms, ops |-> ops, route |-> route,
     caught |-> "none"]

Count1(name) == <<name, 1>>

\* a variant of handle_health_check that probes the backend with a write
HealthCheckProbing(c, n, env) ==
    IF env.ping = "error"
    THEN Done(Raise("RedisError"), c, n, <<>>, << <<"ping", "error">> >>, "health")
    ELSE Done(Return(PyDict(<< <<"statusCode", PyInt(200)>>,
                               <<"body", PyStr(json_dumps(PyDict(<<
                                   <<"status", PyStr("healthy")>>,
                                   <<"cache", PyStr("connected")>>,
                                   <<"timestamp", PyStr(env.timestamp)>> >>)))>> >>)),
              RedisSetex(c, "health", 1, "ok"), n, <<>>, << <<"ping", "ok">> >>, "health")

\* a variant of handle_health_check that reports a failed ping in the body
HealthCheckDegraded(c, n, env) ==
    Done(Return(PyDict(<< <<"statusCode", PyInt(200)>>,
                          <<"body", PyStr(json_dumps(PyDict(<<
                              <<"status", PyStr(IF env.ping = "error"
                                                THEN "degraded" ELSE "healthy")>>,
                              <<"cache", PyStr("connected")>>,
                              <<"timestamp", PyStr(env.timestamp)>> >>)))>> >>)),
         c, n, <<>>, << <<"ping", env.ping>> >>, "health")

handle_health_check(c, n, env) ==
    IF env.ping = "error"
    THEN Done(Raise("RedisError"), c, n, <<>>, << <<"ping", "error">> >>, "health")
    ELSE Done(Return(PyDict(<< <<"statusCode", PyInt(200)>>,
                               <<"body", PyStr(json_dumps(PyDict(<<
                                   <<"status", PyStr("healthy")>>,
                                   <<"cache", PyStr("connected")>>,
                                   <<"timestamp", PyStr(env.timestamp)>> >>)))>> >>)),
              c, n, <<>>, << <<"ping", "ok">> >>, "health")

\* a variant of GetBody that serialises the whole cached envelope
GetBodyEnvelope(parsed_value) == json_dumps(parsed_value)

\* json.dumps(parsed_value["value"]): the body of a 200 get
GetBody(parsed_value) == json_dumps(DictGet(parsed_value, "value"))

\* a variant of CacheControl that announces the default lifetime
CacheControlDefault(remaining_ttl) == "max-age=" \o IntStr(DEFAULT_TTL_SECONDS)

\* f"max-age={remaining_ttl}"
CacheControl(remaining_ttl) == "max-age=" \o IntStr(remaining_ttl)

\* f"application/{parsed_value['type']}"
ContentType(parsed_value) == "application/" \o Format(DictGet(parsed_value, "type"))

\* handle_get_request once the value read was parsed: the structure check,
\* the ttl call (env.lapse seconds after the get) and the 200 response
GetParsed(key, parsed, c, n, env, ops) ==
    IF Raised(parsed)
    THEN Done(Return(InvalidFormat), c, n, <<>>, ops, "get")
    ELSE IF ~IsDict(Val(parsed)) \/ ~HasKey(Val(parsed), "type")
            \/ ~HasKey(Val(parsed), "value")
    THEN Done(Return(InvalidStructure), c, n, <<>>, ops, "get")
    ELSE IF env.ttl = "error"
    THEN Done(Return(CacheError), c, n, <<>>, Append(ops, <<"ttl", key, "error">>), "get")
    ELSE Done(Return(PyDict(<<
                <<"statusCode", PyInt(200)>>,
                <<"headers", PyDict(<<
                    <<"Cache-Control",
                      PyStr(CacheControl(RedisTtl(Expire(c, env.lapse), key)))>>,
                    <<"Content-Type", PyStr(ContentType(Val(parsed)))>> >>)>>,
                <<"body", PyStr(GetBody(Val(parsed)))>> >>)),
              c, n, <<Count1("GetSuccess")>>, Append(ops, <<"ttl", key, "ok">>), "get")

\* a variant of GetKey that renews the time to live of the key it reads
GetKeyTouch(key, c, n, env) ==
    IF Falsy(key)
    THEN Done(Return(MissingUuid), c, n, <<>>, <<>>, "get")
    ELSE IF env.get = "error"
    THEN Done(Return(CacheError), c, n, <<>>, << <<"get", key[2], "error">> >>, "get")
    ELSE IF ~RedisHas(c, key[2])
    THEN Done(Return(UuidNotFound),
              c, n, <<Count1("GetNotFound")>>, << <<"get", key[2], "miss">> >>, "get")
    ELSE GetParsed(key[2], json_loads(c[key[2]].raw),
                   RedisSetex(c, key[2], DEFAULT_TTL_SECONDS, c[key[2]].raw), n, env,
                   << <<"get", key[2], "hit">> >>)

\* a variant of GetKey that emits no metric when the backend has no value
GetKeyQuiet(key, c, n, env) ==
    IF Falsy(key)
    THEN Done(Return(MissingUuid), c, n, <<>>, <<>>, "get")
    ELSE IF env.get = "error"
    THEN Done(Return(CacheError), c, n, <<>>, << <<"get", key[2], "error">> >>, "get")
    ELSE IF ~RedisHas(c, key[2])
    THEN Done(Return(UuidNotFound), c, n, <<>>, << <<"get", key[2], "miss">> >>, "get")
    ELSE GetParsed(key[2], json_loads(c[key[2]].raw), c, n, env,
                   << <<"get", key[2], "hit">> >>)

\* a variant of GetKey without the except clause for redis.RedisError on get
GetKeyRaising(key, c, n, env) ==
    IF Falsy(key)
    THEN Done(Return(MissingUuid), c, n, <<>>, <<>>, "get")
    ELSE IF env.get = "error"
    THEN Done(Raise("RedisError"), c, n, <<>>, << <<"get", key[2], "error">> >>, "get")
    ELSE IF ~RedisHas(c, key[2])
    THEN Done(Return(UuidNotFound),
              c, n, <<Count1("GetNotFound")>>, << <<"get", key[2], "miss">> >>, "get")
    ELSE GetParsed(key[2], json_loads(c[key[2]].raw), c, n, env,
                   << <<"get", key[2], "hit">> >>)

\* handle_get_request once the uuid parameter was read
GetKey(key, c, n, env) ==
    IF Falsy(key)
    THEN Done(Return(MissingUuid), c, n, <<>>, <<>>, "get")
    ELSE IF env.get = "error"
    THEN Done(Return(CacheError), c, n, <<>>, << <<"get", key[2], "error">> >>, "get")
    ELSE IF ~RedisHas(c, key[2])
    THEN Done(Return(UuidNotFound),
              c, n, <<Count1("GetNotFound")>>, << <<"get", key[2], "miss">> >>, "get")
    ELSE GetParsed(key[2], json_loads(c[key[2]].raw), c, n, env,
                   << <<"get", key[2], "hit">> >>)

\* event.get("queryStringParameters", {}).get("uuid") and what follows
GetQuery(qsp, c, n, env) ==
    IF ~IsDict(qsp)
    THEN Done(Raise("AttributeError"), c, n, <<>>, <<>>, "get")
    ELSE GetKey(DictGetDefault(qsp, "uuid", PyNone), c, n, env)

handle_get_request(event, c, n, env) ==
    GetQuery(DictGetDefault(event, "queryStringParameters", PyDict(<<>>)), c, n, env)

\* a variant of validate_post_ttlseconds without the range check
ValidateTtlAnyInteger(ttlseconds) ==
    LET ttl == PyIntOf(ttlseconds)
    IN  CASE ~Raised(ttl) -> Return(TRUE)
          [] ttl = Raise("ValueError") -> Return(FALSE)
          [] OTHER -> ttl

validate_post_ttlseconds(ttlseconds) ==
    LET ttl == PyIntOf(ttlseconds)
    IN  CASE ~Raised(ttl) -> Return(~(Val(ttl) <= 0 \/ Val(ttl) > TTL_MAX_SECONDS))
          [] ttl = Raise("ValueError") -> Return(FALSE)
          [] OTHER -> ttl

\* the checks of one element of puts
ValidItem(item) ==
    IF ~IsDict(item) THEN Return(FALSE)
    ELSE IF ~HasKey(item, "type") \/ ~HasKey(item, "value") THEN Return(FALSE)
    ELSE IF Tag(DictGet(item, "type")) \in {"list", "dict"} THEN Raise("TypeError")
    ELSE IF Tag(DictGet(item, "type")) # "str"
            \/ DictGet(item, "type")[2] \notin ALLOWED_TYPES THEN Return(FALSE)
    ELSE validate_post_ttlseconds(DictGetDefault(item, "ttlseconds", PyInt(0)))

\* the first outcome that ends the loop, or True
FirstNotTrue(rs) ==
    IF \E i \in 1..Len(rs) : rs[i] # Return(TRUE)
    THEN rs[CHOOSE i \in 1..Len(rs) :
               rs[i] # Return(TRUE) /\ \A j \in 1..(i - 1) : rs[j] = Return(TRUE)]
    ELSE Return(TRUE)

validate_post_puts(puts) == FirstNotTrue([i \in 1..Len(puts) |-> ValidItem(puts[i])])

validate_post_body(request_data) ==
    IF ~IsDict(request_data) THEN Return(FALSE)
    ELSE IF ~HasKey(request_data, "puts") THEN Return(FALSE)
    ELSE IF ~IsList(DictGet(request_data, "puts")) THEN Return(FALSE)
    ELSE validate_post_puts(DictGet(request_data, "puts")[2])

\* the TTL the storage loop passes to setex for a ttlseconds that int() accepted
EffectiveTtl(ttlseconds) ==
    IF ttlseconds <= 0 \/ ttlseconds > TTL_MAX_SECONDS THEN DEFAULT_TTL_SECONDS ELSE ttlseconds

\* a variant of CacheValue that stores the element of puts as it came
CacheValueWholeItem(item) == json_dumps(item)

\* json.dumps(cache_value) of an item
CacheValue(item) ==
    json_dumps(PyDict(<< <<"type", PyStr(LowerFrom(DictGet(item, "type")[2], 1))>>,
                         <<"value", DictGet(item, "value")>> >>))

RECURSIVE StoreFrom(_, _, _, _, _, _, _), StoreItem(_, _, _, _, _, _, _, _)

\* a variant of StoreItem whose key is generated once, before the loop
StoreItemKeyPerBatch(puts, i, c, n, responses, ops, env, parsedTtl) ==
    IF Raised(parsedTtl)
    THEN Done(parsedTtl, c, n, << <<"PostCount", Len(puts)>> >>, ops, "post")
    ELSE IF env.setexFailAt = i
    THEN Done(Return(CacheError), c, n + 1,
              << <<"PostCount", Len(puts)>>, Count1("PostFail") >>,
              Append(ops, <<"setex", Uuid4(n - i + 2), EffectiveTtl(Val(parsedTtl)),
                            CacheValue(puts[i]), "error">>),
              "post")
    ELSE StoreFrom(puts, i + 1,
                   RedisSetex(c, Uuid4(n - i + 2), EffectiveTtl(Val(parsedTtl)),
                              CacheValue(puts[i])),
                   n + 1,
                   Append(responses, PyDict(<< <<"uuid", PyStr(Uuid4(n - i + 2))>> >>)),
                   Append(ops, <<"setex", Uuid4(n - i + 2), EffectiveTtl(Val(parsedTtl)),
                                 CacheValue(puts[i]), "ok">>),
                   env)

\* a variant of StoreItem that puts the newest identifier first in responses
StoreItemPrepend(puts, i, c, n, responses, ops, env, parsedTtl) ==
    IF Raised(parsedTtl)
    THEN Done(parsedTtl, c, n, << <<"PostCount", Len(puts)>> >>, ops, "post")
    ELSE IF env.setexFailAt = i
    THEN Done(Return(CacheError), c, n + 1,
              << <<"PostCount", Len(puts)>>, Count1("PostFail") >>,
              Append(ops, <<"setex", Uuid4(n + 1), EffectiveTtl(Val(parsedTtl)),
                            CacheValue(puts[i]), "error">>),
              "post")
    ELSE StoreFrom(puts, i + 1,
                   RedisSetex(c, Uuid4(n + 1), EffectiveTtl(Val(parsedTtl)), CacheValue(puts[i])),
                   n + 1,
                   << PyDict(<< <<"uuid", PyStr(Uuid4(n + 1))>> >>) >> \o responses,
                   Append(ops, <<"setex", Uuid4(n + 1), EffectiveTtl(Val(parsedTtl)),
                                 CacheValue(puts[i]), "ok">>),
                   env)

\* a variant of StoreItem that goes on with the next item after a failed store
StoreItemSkipFailed(puts, i, c, n, responses, ops, env, parsedTtl) ==
    IF Raised(parsedTtl)
    THEN Done(parsedTtl, c, n, << <<"PostCount", Len(puts)>> >>, ops, "post")
    ELSE IF env.setexFailAt = i
    THEN StoreFrom(puts, i + 1, c, n + 1, responses,
                   Append(ops, <<"setex", Uuid4(n + 1), EffectiveTtl(Val(parsedTtl)),
                                 CacheValue(puts[i]), "error">>),
                   env)
    ELSE StoreFrom(puts, i + 1,
                   RedisSetex(c, Uuid4(n + 1), EffectiveTtl(Val(parsedTtl)), CacheValue(puts[i])),
                   n + 1,
                   Append(responses, PyDict(<< <<"uuid", PyStr(Uuid4(n + 1))>> >>)),
                   Append(ops, <<"setex", Uuid4(n + 1), EffectiveTtl(Val(parsedTtl)),
                                 CacheValue(puts[i]), "ok">>),
                   env)

\* the storage loop of handle_post_request from the i-th item on
\* the key of a variant of StoreItem that takes the key the client supplies
ClientKey(item, n) ==
    IF HasKey(item, "key") /\ Tag(DictGet(item, "key")) = "str"
    THEN DictGet(item, "key")[2] ELSE Uuid4(n + 1)

\* a variant of StoreItem that stores under the key the client supplies
StoreItemClientKey(puts, i, c, n, responses, ops, env, parsedTtl) ==
    IF Raised(parsedTtl)
    THEN Done(parsedTtl, c, n, << <<"PostCount", Len(puts)>> >>, ops, "post")
    ELSE IF env.setexFailAt = i
    THEN Done(Return(CacheError), c, n + 1,
              << <<"PostCount", Len(puts)>>, Count1("PostFail") >>,
              Append(ops, <<"setex", ClientKey(puts[i], n), EffectiveTtl(Val(parsedTtl)),
                            CacheValue(puts[i]), "error">>),
              "post")
    ELSE StoreFrom(puts, i + 1,
                   RedisSetex(c, ClientKey(puts[i], n), EffectiveTtl(Val(parsedTtl)),
                              CacheValue(puts[i])),
                   n + 1,
                   Append(responses, PyDict(<< <<"uuid", PyStr(ClientKey(puts[i], n))>> >>)),
                   Append(ops, <<"setex", ClientKey(puts[i], n), EffectiveTtl(Val(parsedTtl)),
                                 CacheValue(puts[i]), "ok">>),
                   env)

\* a variant of StoreItem that emits PostCount only once the batch is stored
StoreItemCountAtEnd(puts, i, c, n, responses, ops, env, parsedTtl) ==
    IF Raised(parsedTtl)
    THEN Done(parsedTtl, c, n, <<>>, ops, "post")
    ELSE IF env.setexFailAt = i
    THEN Done(Return(CacheError), c, n + 1, << Count1("PostFail") >>,
              Append(ops, <<"setex", Uuid4(n + 1), EffectiveTtl(Val(parsedTtl)),
                            CacheValue(puts[i]), "error">>),
              "post")
    ELSE StoreFrom(puts, i + 1,
                   RedisSetex(c, Uuid4(n + 1), EffectiveTtl(Val(parsedTtl)), CacheValue(puts[i])),
                   n + 1,
                   Append(responses, PyDict(<< <<"uuid", PyStr(Uuid4(n + 1))>> >>)),
                   Append(ops, <<"setex", Uuid4(n + 1), EffectiveTtl(Val(parsedTtl)),
                                 CacheValue(puts[i]), "ok">>),
                   env)

StoreFrom(puts, i, c, n, responses, ops, env) ==
    IF i > Len(puts)
    THEN Done(Return(PyDict(<<
                <<"statusCode", PyInt(200)>>,
                <<"body", PyStr(json_dumps(PyDict(<<
                    <<"responses", PyList(responses)>> >>)))>> >>)),
              c, n, << <<"PostCount", Len(puts)>>, Count1("PostSuccess") >>, ops, "post")
    ELSE StoreItem(puts, i, c, n, responses, ops, env,
                   PyIntOf(DictGetDefault(puts[i], "ttlseconds", PyInt(DEFAULT_TTL_SECONDS))))

\* one turn of the storage loop, given int(item.get("ttlseconds", DEFAULT_TTL_SECONDS))
StoreItem(puts, i, c, n, responses, ops, env, parsedTtl) ==
    IF Raised(parsedTtl)
    THEN Done(parsedTtl, c, n, << <<"PostCount", Len(puts)>> >>, ops, "post")
    ELSE IF env.setexFailAt = i
    THEN Done(Return(CacheError), c, n + 1,
              << <<"PostCount", Len(puts)>>, Count1("PostFail") >>,
              Append(ops, <<"setex", Uuid4(n + 1), EffectiveTtl(Val(parsedTtl)),
                            CacheValue(puts[i]), "error">>),
              "post")
    ELSE StoreFrom(puts, i + 1,
                   RedisSetex(c, Uuid4(n + 1), EffectiveTtl(Val(parsedTtl)), CacheValue(puts[i])),
                   n + 1,
                   Append(responses, PyDict(<< <<"uuid", PyStr(Uuid4(n + 1))>> >>)),
                   Append(ops, <<"setex", Uuid4(n + 1), EffectiveTtl(Val(parsedTtl)),
                                 CacheValue(puts[i]), "ok">>),
                   env)

\* handle_post_request once the body was validated
PostValidated(valid, request_data, c, n, env) ==
    IF Raised(valid)
    THEN Done(valid, c, n, <<>>, <<>>, "post")
    ELSE IF ~Val(valid)
    THEN Done(Return(InvalidBody), c, n, <<Count1("PostFail")>>, <<>>, "post")
    ELSE StoreFrom(DictGet(request_data, "puts")[2], 1, c, n, <<>>, <<>>, env)

\* handle_post_request once the body was parsed
PostParsed(request_data, c, n, env) ==
    IF Raised(request_data)
    THEN Done(request_data, c, n, <<>>, <<>>, "post")
    ELSE PostValidated(validate_post_body(Val(request_data)), Val(request_data), c, n, env)

\* a variant of PostBody that takes only None for a missing body
PostBodyNoneOnly(body, c, n, env) ==
    IF Tag(body) = "null"
    THEN Done(Return(MissingBody), c, n, <<Count1("PostFail")>>, <<>>, "post")
    ELSE PostParsed(Loads(body[2]), c, n, env)

\* handle_post_request once the body was read
PostBody(body, c, n, env) ==
    IF Falsy(body)
    THEN Done(Return(MissingBody), c, n, <<Count1("PostFail")>>, <<>>, "post")
    ELSE PostParsed(Loads(body[2]), c, n, env)

handle_post_request(event, c, n, env) ==
    PostBody(DictGetDefault(event, "body", PyNone), c, n, env)

\* a variant of Dispatch that sends every method other than POST to the get handler
DispatchGetByDefault(event, c, n, env) ==
    IF ~HasKey(event, "path")
    THEN Done(Raise("KeyError"), c, n, <<>>, <<>>, "none")
    ELSE IF DictGet(event, "path") = PyStr("/cache/health")
    THEN handle_health_check(c, n, env)
    ELSE IF DictGet(event, "path") # PyStr("/cache")
    THEN Done(Return(NotFound), c, n, <<>>, <<>>, "none")
    ELSE IF ~HasKey(event, "httpMethod")
    THEN Done(Raise("KeyError"), c, n, <<>>, <<>>, "none")
    ELSE IF DictGet(event, "httpMethod") = PyStr("POST")
    THEN handle_post_request(event, c, n, env)
    ELSE handle_get_request(event, c, n, env)

\* a variant of Dispatch that reads httpMethod before it looks at the path
DispatchMethodFirst(event, c, n, env) ==
    IF ~HasKey(event, "path") \/ ~HasKey(event, "httpMethod")
    THEN Done(Raise("KeyError"), c, n, <<>>, <<>>, "none")
    ELSE IF DictGet(event, "path") = PyStr("/cache/health")
    THEN handle_health_check(c, n, env)
    ELSE IF DictGet(event, "path") # PyStr("/cache")
    THEN Done(Return(NotFound), c, n, <<>>, <<>>, "none")
    ELSE IF DictGet(event, "httpMethod") = PyStr("GET")
    THEN handle_get_request(event, c, n, env)
    ELSE IF DictGet(event, "httpMethod") = PyStr("POST")
    THEN handle_post_request(event, c, n, env)
    ELSE Done(Return(MethodNotAllowed), c, n, <<>>, <<>>, "none")

\* the try block of handler: the dispatch on path and method
Dispatch(event, c, n, env) ==
    IF ~HasKey(event, "path")
    THEN Done(Raise("KeyError"), c, n, <<>>, <<>>, "none")
    ELSE IF DictGet(event, "path") = PyStr("/cache/health")
    THEN handle_health_check(c, n, env)
    ELSE IF DictGet(event, "path") # PyStr("/cache")
    THEN Done(Return(NotFound), c, n, <<>>, <<>>, "none")
    ELSE IF ~HasKey(event, "httpMethod")
    THEN Done(Raise("KeyError"), c, n, <<>>, <<>>, "none")
    ELSE IF DictGet(event, "httpMethod") = PyStr("GET")
    THEN handle_get_request(event, c, n, env)
    ELSE IF DictGet(event, "httpMethod") = PyStr("POST")
    THEN handle_post_request(event, c, n, env)
    ELSE Done(Return(MethodNotAllowed), c, n, <<>>, <<>>, "none")

\* a variant of Caught that puts str(e) in the body
CaughtLeaking(r) ==
    IF Raised(r.out)
    THEN [r EXCEPT !.out = Return(ErrorResponse(500, Val(r.out))), !.caught = Val(r.out)]
    ELSE r

\* a variant of Caught whose except clause names KeyError only
CaughtKeyError(r) ==
    IF r.out = Raise("KeyError")
    THEN [r EXCEPT !.out = Return(InternalServerError), !.caught = Val(r.out)]
    ELSE r

\* the except clause of handler: an exception becomes the generic 500
Caught(r) ==
    IF Raised(r.out)
    THEN [r EXCEPT !.out = Return(InternalServerError), !.caught = Val(r.out)]
    ELSE r

\* metrics_client.put_metrics_count_value: the env.emitFailAt-th emission of
\* the invocation raises (0: none does)
EmitRaises(env, j) == env.emitFailAt = j

\* What the handler did when one of its emissions raises. r is what it does
\* when none raises. No metric call has a try of its own and none is under
\* an except clause that takes its exception, so the handler ends there:
\* PostCount is emitted before the storage loop, every other metric after
\* the last backend call of the handler.
Emitting(r, c, n, env) ==
    IF \E j \in 1..Len(r.metrics) : EmitRaises(env, j)
    THEN LET j == CHOOSE i \in 1..Len(r.metrics) : EmitRaises(env, i)
         IN  IF r.metrics[j][1] = "PostCount"
             THEN Done(Raise("Exception"), c, n, SubSeq(r.metrics, 1, j - 1), <<>>, r.route)
             ELSE Done(Raise("Exception"), r.cache, r.nuuid, SubSeq(r.metrics, 1, j - 1),
                       r.ops, r.route)
    ELSE r

handler(event, c, n, env) == Caught(Emitting(Dispatch(event, c, n, env), c, n, env))

\* --------------------------------------------------------------- bounds

\* identifiers generated over a run
MaxUuids == 2
\* time steps over a run
MaxAdvances == 2

\* --------------------------------------------------------------- inputs

Absent == <<"absent">>

\* an API Gateway proxy event: a dict with the fields that are present
MkEvent(path, method, qsp, body) ==
    PyDict(SelectSeq(<< <<"path", path>>, <<"httpMethod", method>>,
                        <<"queryStringParameters", qsp>>, <<"body", body>> >>,
                     LAMBDA kv : kv[2] # Absent))

Paths == {Absent, PyStr("/cache"), PyStr("/cache/health"), PyStr("/invalid"), PyStr("/cache/")}
Methods == {Absent, PyStr("GET"), PyStr("POST"), PyStr("PUT")}

\* a key some other writer of the cache uses, and the texts it writes
ForeignKey == "foreign"
ForeignTexts ==
    { "not json",
      "[1]",
      "{\"type\": \"json\"}",
      "{\"value\": 1}",
      "{\"type\": \"xml\", \"value\": \"<b/>\"}" }
ForeignTtls == {300}

LookupKeys == {Uuid4(i) : i \in 1..MaxUuids} \cup {ForeignKey, "unused"}

QueryParams ==
    {Absent, PyNone, PyDict(<<>>), PyDict(<< <<"uuid", PyStr("")>> >>)}
    \cup {PyDict(<< <<"uuid", PyStr(k)>> >>) : k \in LookupKeys}

Bodies == {Absent, PyNone, PyStr("")} \cup {PyStr(b) : b \in ValidBodies \cup InvalidBodies}

RouteEvents ==
    {MkEvent(p, m, Absent, Absent) : p \in Paths \ {PyStr("/cache/health")}, m \in Methods}
HealthEvents == {MkEvent(PyStr("/cache/health"), m, Absent, Absent) : m \in Methods}
GetEvent(q) == MkEvent(PyStr("/cache"), PyStr("GET"), q, Absent)
GetEvents == {GetEvent(q) : q \in QueryParams}
PostEvent(b) == MkEvent(PyStr("/cache"), PyStr("POST"), Absent, b)
PostEvents == {PostEvent(b) : b \in Bodies}

Timestamp == "2025-01-01 00:00:00 UTC"

\* the backend's part in one invocation: the outcome of ping, get and ttl,
\* the seconds that pass between get and ttl, the store that fails (0: none)
Env(ping, get, lapse, ttl, setexFailAt) ==
    [ping |-> ping, get |-> get, lapse |-> lapse, ttl |-> ttl,
     setexFailAt |-> setexFailAt, timestamp |-> Timestamp, emitFailAt |-> 0]
\* env, with the j-th emission raising
EmitFailing(env, j) == [env EXCEPT !.emitFailAt = j]
Calm == Env("ok", "ok", 0, "ok", 0)
Outcomes == {"ok", "error"}
TimeSteps == {299, 3600}

\* ---------------------------------------------------------------- state

\* ---------------------------------------------------------------------
\* The credential provider. Time is counted in ticks, TicksPerSecond to the
\* second: the memo's timer has a finer grain than the date of a signature,
\* which is in whole seconds.

TicksPerSecond == 4
TOKEN_SECONDS == 900
MEMO_SECONDS == 900

\* the presigned URL: its date is the clock cut to the second, and it is
\* valid for expires_in seconds from that date
generate_presigned_url(now) ==
    [date |-> (now \div TicksPerSecond) * TicksPerSecond, expires_in |-> TOKEN_SECONDS]

\* the body of get_credentials: the pair (user, token)
SignedPair(user, now) == <<user, generate_presigned_url(now)>>

\* TTLCache: a value is kept until ttl seconds after it was put in
TTLCacheHas(memo, timer) == memo # <<>> /\ timer < memo[1].expires
TTLCacheSet(value, timer) ==
    <<[value |-> value, expires |-> timer + MEMO_SECONDS * TicksPerSecond]>>

\* the provider of a new process: nothing memoized, nothing signed
ElastiCacheIAMProvider ==
    [user |-> "prebid", clock |-> 0, ticks |-> 0, memo |-> <<>>, signs |-> 0,
     signedAt |-> 0 - 1, returned |-> <<>>, returnedAt |-> 0 - 1]

\* get_credentials under @cached: the memoized pair while the memo holds it,
\* a newly signed one, memoized, otherwise
get_credentials(p) ==
    IF TTLCacheHas(p.memo, p.clock)
    THEN [p EXCEPT !.returned = <<p.memo[1].value>>, !.returnedAt = p.clock]
    ELSE [p EXCEPT !.memo = TTLCacheSet(SignedPair(p.user, p.clock), p.clock),
                   !.signs = p.signs + 1,
                   !.signedAt = p.clock,
                   !.returned = <<SignedPair(p.user, p.clock)>>,
                   !.returnedAt = p.clock]

MaxTicks == 4
ClockSteps == {1, MEMO_SECONDS * TicksPerSecond - 1, MEMO_SECONDS * TicksPerSecond}

VARIABLES
    cache,      \* the backend's keys
    nuuid,      \* identifiers generated so far
    advances,   \* time steps so far
    issued,     \* identifier -> the item a 200 POST stored under it, and its seconds left
    event,      \* the invocation's event
    response,   \* ... its response
    route,      \* ... the handler it reached ("idle": no invocation is being answered)
    caught,     \* ... the exception the router caught ("none": none)
    metrics,    \* ... the metrics it emitted
    ops,        \* ... the backend operations it made
    provider    \* the credential provider of the process, and its clock

vars ==
    <<cache, nuuid, advances, issued, event, response, route, caught, metrics, ops, provider>>

Idle ==
    /\ event = PyDict(<<>>)
    /\ response = PyNone
    /\ route = "idle"
    /\ caught = "none"
    /\ metrics = <<>>
    /\ ops = <<>>

Init ==
    /\ cache = EmptyCache
    /\ nuuid = 0
    /\ advances = 0
    /\ issued = [k \in {} |-> [item |-> PyNone, left |-> 0]]
    /\ Idle
    /\ provider = ElastiCacheIAMProvider

\* what the client of a 200 POST holds: each returned identifier with the
\* element of puts it stands for and the seconds its entry was stored for
Pairs(puts, ids, stores) ==
    { <<DictGet(ids[i], "uuid")[2], [item |-> puts[i], left |-> stores[i][3]]>> :
      i \in 1..Len(ids) }

IssuedBy(e, r) ==
    IF r.route = "post" /\ ~Raised(r.out) /\ StatusOf(Val(r.out)) = 200
    THEN Pairs(DictGet(Val(Loads(DictGet(e, "body")[2])), "puts")[2],
               DictGet(Val(json_loads(BodyOf(Val(r.out)))), "responses")[2], r.ops)
    ELSE {}

Aged(iss, d) ==
    [k \in DOMAIN iss |->
        [item |-> iss[k].item, left |-> IF iss[k].left > d THEN iss[k].left - d ELSE 0]]

\* the state an invocation leaves, given what the handler did and the
\* identifiers it gave out; the seconds of env.lapse have passed
Record(e, env, r, new) ==
    /\ r.nuuid <= MaxUuids
    /\ cache' = Expire(r.cache, env.lapse)
    /\ nuuid' = r.nuuid
    /\ issued' = [k \in DOMAIN issued \cup {p[1] : p \in new} |->
                    IF k \in DOMAIN issued THEN Aged(issued, env.lapse)[k]
                    ELSE (CHOOSE q \in new : q[1] = k)[2]]
    /\ event' = e
    /\ response' = (IF Raised(r.out) THEN r.out ELSE Val(r.out))
    /\ route' = r.route
    /\ caught' = r.caught
    /\ metrics' = r.metrics
    /\ ops' = r.ops
    /\ UNCHANGED provider

Answered(e, env, r) == Record(e, env, r, IssuedBy(e, r))

\* one invocation of the Lambda, from the event to the response
Invoke(e, env) == route = "idle" /\ Answered(e, env, handler(e, cache, nuuid, env))

\* an event for a path other than /cache/health, with no query and no body
Route == \E e \in RouteEvents : Invoke(e, Calm) /\ UNCHANGED advances

Health ==
    \E e \in HealthEvents, ping \in Outcomes :
        Invoke(e, Env(ping, "ok", 0, "ok", 0)) /\ UNCHANGED advances

Get == \E e \in GetEvents : Invoke(e, Calm) /\ UNCHANGED advances

\* a get whose backend call raises: the get, or the ttl after it
GetError ==
    \E k \in LookupKeys, get \in Outcomes, ttl \in Outcomes :
        /\ "error" \in {get, ttl}
        /\ Invoke(GetEvent(PyDict(<< <<"uuid", PyStr(k)>> >>)), Env("ok", get, 0, ttl, 0))
        /\ UNCHANGED advances

\* a get during which the key's last seconds run out before the ttl call
GetLapse ==
    \E k \in DOMAIN cache :
        /\ advances < MaxAdvances
        /\ Invoke(GetEvent(PyDict(<< <<"uuid", PyStr(k)>> >>)),
                  Env("ok", "ok", cache[k].ttl, "ok", 0))
        /\ advances' = advances + 1

Post == \E e \in PostEvents : Invoke(e, Calm) /\ UNCHANGED advances

\* a post one of whose stores raises
PostError ==
    \E b \in ValidBodies :
        \E failAt \in 1..Len(DictGet(Val(Loads(b)), "puts")[2]) :
            /\ Invoke(PostEvent(PyStr(b)), Env("ok", "ok", 0, "ok", failAt))
            /\ UNCHANGED advances

\* the invocation ends: the response has gone to the caller
Complete ==
    /\ route # "idle"
    /\ event' = PyDict(<<>>)
    /\ response' = PyNone
    /\ route' = "idle"
    /\ caught' = "none"
    /\ metrics' = <<>>
    /\ ops' = <<>>
    /\ UNCHANGED <<cache, nuuid, advances, issued, provider>>

\* d seconds pass between invocations
Advance ==
    \E d \in TimeSteps :
        /\ route = "idle"
        /\ advances < MaxAdvances
        /\ advances' = advances + 1
        /\ cache' = Expire(cache, d)
        /\ issued' = Aged(issued, d)
        /\ UNCHANGED <<nuuid, event, response, route, caught, metrics, ops, provider>>

\* another writer of the cache puts a text under its own key
Foreign ==
    \E t \in ForeignTexts, seconds \in ForeignTtls :
        /\ route = "idle"
        /\ ~RedisHas(cache, ForeignKey)
        /\ cache' = RedisSetex(cache, ForeignKey, seconds, t)
        /\ UNCHANGED <<nuuid, advances, issued, event, response, route, caught, metrics, ops,
                       provider>>

Next ==
    \/ Route \/ Health \/ Get \/ GetError \/ GetLapse \/ Post \/ PostError
    \/ Complete \/ Advance \/ Foreign

Spec == Init /\ [][Next]_vars

\* the longest time to live passes between invocations, any number of times
Elapse ==
    /\ route = "idle"
    /\ cache' = Expire(cache, TTL_MAX_SECONDS)
    /\ issued' = Aged(issued, TTL_MAX_SECONDS)
    /\ UNCHANGED <<nuuid, advances, event, response, route, caught, metrics, ops, provider>>

LiveNext == Next \/ Elapse

\* every invocation ends, and time goes on however often the Lambda is invoked
LiveSpec == Init /\ [][LiveNext]_vars /\ WF_vars(Complete) /\ SF_vars(Elapse)

\* a get or a post one of whose metric emissions raises
EmitError ==
    /\ route = "idle"
    /\ \E e \in GetEvents \cup PostEvents, j \in 1..2 :
        /\ Invoke(e, EmitFailing(Calm, j))
        /\ caught' = "Exception"
        /\ UNCHANGED advances

\* a post one of whose stores raises, and then the emission of PostFail
PostErrorEmitError ==
    /\ route = "idle"
    /\ \E b \in ValidBodies :
        \E failAt \in 1..Len(DictGet(Val(Loads(b)), "puts")[2]) :
            /\ Invoke(PostEvent(PyStr(b)), EmitFailing(Env("ok", "ok", 0, "ok", failAt), 2))
            /\ UNCHANGED advances

MetricNext ==
    \/ Get \/ Post \/ PostError \/ Complete \/ Foreign
    \/ EmitError \/ PostErrorEmitError

MetricSpec == Init /\ [][MetricNext]_vars

\* ---------------------------------------------------------------------
\* The credential provider of one warm process

\* the connection pool asks the provider for credentials
GetCredentials ==
    /\ provider' = get_credentials(provider)
    /\ UNCHANGED <<cache, nuuid, advances, issued, event, response, route, caught, metrics, ops>>

\* the clock of the process goes on
Tick ==
    \E d \in ClockSteps :
        /\ provider.ticks < MaxTicks
        /\ provider' = [provider EXCEPT !.clock = provider.clock + d,
                                        !.ticks = provider.ticks + 1]
        /\ UNCHANGED <<cache, nuuid, advances, issued, event, response, route, caught,
                       metrics, ops>>

CredNext == GetCredentials \/ Tick

CredSpec == Init /\ [][CredNext]_vars

\* ------------------------------------------------- what a run is asked

\* an invocation is being answered: event, response, route, caught, metrics
\* and ops are those of that invocation
Answering == route # "idle"

EventPath == DictGetDefault(event, "path", Absent)
EventMethod == DictGetDefault(event, "httpMethod", Absent)
EventQuery == DictGetDefault(event, "queryStringParameters", Absent)
EventBody == DictGetDefault(event, "body", Absent)

GetOnCache == Answering /\ EventPath = PyStr("/cache") /\ EventMethod = PyStr("GET")
PostOnCache == Answering /\ EventPath = PyStr("/cache") /\ EventMethod = PyStr("POST")

\* the POST has a non-empty body that is JSON text
BodyParses ==
    /\ PostOnCache
    /\ Tag(EventBody) = "str" /\ EventBody[2] # ""
    /\ ~Raised(Loads(EventBody[2]))

\* ... the JSON text of an object whose puts is a list
HasPutsList ==
    /\ BodyParses
    /\ IsDict(Val(Loads(EventBody[2])))
    /\ HasKey(Val(Loads(EventBody[2])), "puts")
    /\ IsList(DictGet(Val(Loads(EventBody[2])), "puts"))

PutsList == DictGet(Val(Loads(EventBody[2])), "puts")[2]

\* an object with a value and a type of {xml, json}
TypedItem(item) ==
    /\ IsDict(item)
    /\ HasKey(item, "type") /\ HasKey(item, "value")
    /\ DictGet(item, "type") \in {PyStr(t) : t \in ALLOWED_TYPES}

\* v parses as an integer in (0, 3600]
TtlInRange(v) ==
    /\ ~Raised(PyIntOf(v))
    /\ Val(PyIntOf(v)) > 0 /\ Val(PyIntOf(v)) <= TTL_MAX_SECONDS

\* v is 0, negative, greater than 3600, or a string that is not a number
TtlOutOfRange(v) ==
    \/ Tag(v) = "int" /\ (v[2] <= 0 \/ v[2] > TTL_MAX_SECONDS)
    \/ Tag(v) = "str" /\ Raised(IntOfStr(v[2]))

\* the setex calls of the invocation, and whether every backend call answered
Stores == SelectSeq(ops, LAMBDA o : o[1] = "setex")
BackendAnswers == \A i \in 1..Len(ops) : ops[i][Len(ops[i])] # "error"

\* --------------------------------------------------------------- claims

\* C1: a POST /cache item with a valid type and a value but no ttlseconds
\* field is accepted (status 200) and stored with the default TTL of 300
\* seconds.  The code validates item.get("ttlseconds", 0), and 0 is out of
\* range: the request is answered 400 and nothing is stored.
C1_MissingTtlStoredWithDefault ==
    ( /\ HasPutsList
      /\ BackendAnswers
      /\ \A i \in 1..Len(PutsList) :
            /\ TypedItem(PutsList[i])
            /\ HasKey(PutsList[i], "ttlseconds") => TtlInRange(DictGet(PutsList[i], "ttlseconds"))
      /\ \E i \in 1..Len(PutsList) : ~HasKey(PutsList[i], "ttlseconds") )
    => /\ StatusOf(response) = 200
       /\ Len(Stores) = Len(PutsList)
       /\ \A i \in 1..Len(PutsList) :
            ~HasKey(PutsList[i], "ttlseconds") => Stores[i][3] = DEFAULT_TTL_SECONDS

\* C2: round trip.  When a 200 POST stored an item of type json and value V
\* under identifier u, a GET /cache?uuid=u made while the entry's seconds
\* have not run out, and whose backend calls answer, returns status 200,
\* Content-Type application/json and the body json.dumps(V).
C2_RoundTrip ==
    [][\A u \in DOMAIN issued :
        ( /\ issued[u].left > 0
          /\ DictGet(issued[u].item, "type") = PyStr("json")
          /\ event' = GetEvent(PyDict(<< <<"uuid", PyStr(u)>> >>))
          /\ \A i \in 1..Len(ops') : ops'[i][Len(ops'[i])] # "error" )
        => /\ StatusOf(response') = 200
           /\ DictGet(DictGet(response', "headers"), "Content-Type") = PyStr("application/json")
           /\ BodyOf(response') = json_dumps(DictGet(issued[u].item, "value"))]_vars

\* a GET of an identifier given out for a json item came back 200
C2_Witness ==
    /\ GetOnCache
    /\ \E u \in DOMAIN issued :
        /\ event = GetEvent(PyDict(<< <<"uuid", PyStr(u)>> >>))
        /\ DictGet(issued[u].item, "type") = PyStr("json")
        /\ StatusOf(response) = 200
        /\ BodyOf(response) = json_dumps(DictGet(issued[u].item, "value"))

\* the body fails the structural validation the way C3 lists
StructurallyInvalid(d) ==
    \/ ~IsDict(d)
    \/ ~HasKey(d, "puts")
    \/ ~IsList(DictGet(d, "puts"))
    \/ \E i \in 1..Len(DictGet(d, "puts")[2]) :
        LET item == DictGet(d, "puts")[2][i]
        IN  \/ ~TypedItem(item)
            \/ HasKey(item, "ttlseconds") /\ ~TtlInRange(DictGet(item, "ttlseconds"))

\* C3: any POST /cache body that fails structural validation (not an object,
\* no puts, puts not a list, an element that is not an object or lacks type
\* or value, a type outside {xml, json}, a ttlseconds that is present but
\* does not parse as an integer in (0, 3600], e.g. a non-numeric string or
\* null) yields 400 {"error": "Invalid request body"}, emits PostFail and
\* performs no setex.  A null ttlseconds, or a type that is a list, raises
\* TypeError in validation: the answer is the router's 500, with no metric.
C3_InvalidBodyIs400 ==
    (BodyParses /\ StructurallyInvalid(Val(Loads(EventBody[2]))))
    => /\ response = InvalidBody
       /\ metrics = <<Count1("PostFail")>>
       /\ Stores = <<>>

\* some element of puts has a type, a value and a ttlseconds that is 0,
\* negative, greater than 3600 or non-numeric
HasTtlOutOfRange ==
    /\ HasPutsList
    /\ \E i \in 1..Len(PutsList) :
        /\ TypedItem(PutsList[i])
        /\ HasKey(PutsList[i], "ttlseconds")
        /\ TtlOutOfRange(DictGet(PutsList[i], "ttlseconds"))

NoUuid ==
    \/ EventQuery \in {Absent, PyNone, PyDict(<<>>)}
    \/ IsDict(EventQuery) /\ DictGetDefault(EventQuery, "uuid", Absent) \in {Absent, PyStr("")}

\* C5: every GET /cache event whose uuid query parameter is missing or empty
\* (queryStringParameters absent, null, an empty map, or uuid "") is answered
\* 400 {"error": "Missing uuid parameter"} with no backend operation.  A null
\* queryStringParameters makes .get fail on None: the answer is the router's
\* 500.
C5_MissingUuidIs400 ==
    (GetOnCache /\ NoUuid) => response = MissingUuid /\ ops = <<>>

\* C6: a POST /cache whose body is a non-empty string that is not valid JSON
\* returns 400 (not 500) and stores nothing.  json.loads runs outside any
\* try of the post handler: the answer is the router's 500.
C6_InvalidJsonIs400 ==
    ( /\ PostOnCache
      /\ Tag(EventBody) = "str" /\ EventBody[2] # ""
      /\ Raised(Loads(EventBody[2])) )
    => StatusOf(response) = 400 /\ Stores = <<>>

\* C7: a POST /cache whose body is {"puts": []} is rejected with status 400
\* and stores nothing.  The loop of validate_post_puts has nothing to
\* refuse: the answer is 200 with an empty list of responses.
C7_EmptyPutsIs400 ==
    (HasPutsList /\ PutsList = <<>>) => StatusOf(response) = 400 /\ Stores = <<>>

\* the event names a method and a path, and the pair is none of
\* GET /cache/health, GET /cache, POST /cache
OutsideRoutes ==
    /\ Answering
    /\ EventPath # Absent /\ EventMethod # Absent
    /\ <<EventMethod, EventPath>> \notin
            { <<PyStr("GET"), PyStr("/cache/health")>>,
              <<PyStr("GET"), PyStr("/cache")>>,
              <<PyStr("POST"), PyStr("/cache")>> }

\* C8 as stated: every (method, path) combination outside the defined routes
\* returns exactly 404 (path other than /cache and /cache/health) or 405
\* (method other than GET or POST on /cache), and never 200.
C8_OutsideRoutes404Or405 ==
    OutsideRoutes
    => /\ StatusOf(response) # 200
       /\ \/ /\ EventPath \notin {PyStr("/cache"), PyStr("/cache/health")}
             /\ StatusOf(response) = 404
          \/ /\ EventPath = PyStr("/cache")
             /\ EventMethod \notin {PyStr("GET"), PyStr("POST")}
             /\ StatusOf(response) = 405

\* C8: outside the defined routes, a path other than /cache and
\* /cache/health is answered 404 {"error": "Not found"} and a method other
\* than GET or POST on /cache is answered 405 {"error": "Method not
\* allowed"}; the path /cache/health is answered by the health check
\* whatever the method, with 200 when the ping answers.
C8_OutsideRoutesMatrix ==
    OutsideRoutes
    => IF EventPath = PyStr("/cache/health")
       THEN /\ route = "health"
            /\ ops = << <<"ping", "ok">> >> => StatusOf(response) = 200
       ELSE IF EventPath = PyStr("/cache")
       THEN response = MethodNotAllowed
       ELSE response = NotFound

\* a POST to /cache/health was answered 200 by the health check
C8_Witness ==
    /\ OutsideRoutes
    /\ EventPath = PyStr("/cache/health") /\ EventMethod = PyStr("POST")
    /\ route = "health"
    /\ StatusOf(response) = 200

\* C9: the router dispatches by exact path, then method: /cache/health goes
\* to the health check whatever the method, even an absent one; any other
\* path than /cache is answered 404 with no backend operation; on /cache GET
\* goes to the get handler, POST to the post handler, and any other method
\* is answered 405 {"error": "Method not allowed"}.
C9_Dispatch ==
    (Answering /\ EventPath # Absent)
    => IF EventPath = PyStr("/cache/health")
       THEN route = "health" /\ Len(ops) = 1 /\ ops[1][1] = "ping"
       ELSE IF EventPath # PyStr("/cache")
       THEN response = NotFound /\ route = "none" /\ ops = <<>>
       ELSE /\ EventMethod = PyStr("GET") => route = "get"
            /\ EventMethod = PyStr("POST") => route = "post"
            /\ EventMethod \notin {Absent, PyStr("GET"), PyStr("POST")}
                => response = MethodNotAllowed /\ route = "none" /\ ops = <<>>

\* an event for /cache/health with no httpMethod reached the health check
C9_Witness ==
    /\ Answering
    /\ EventPath = PyStr("/cache/health") /\ EventMethod = Absent
    /\ route = "health"
    /\ StatusOf(response) = 200

HasBadType ==
    /\ HasPutsList
    /\ \E i \in 1..Len(PutsList) :
        /\ IsDict(PutsList[i])
        /\ HasKey(PutsList[i], "type")
        /\ DictGet(PutsList[i], "type") \notin {PyStr(t) : t \in ALLOWED_TYPES}

\* C11: if any element of puts has a type other than exactly "xml" or
\* "json" (e.g. "csv" or "JSON"), the entire batch is rejected with status
\* 400 and no item of the batch is stored, valid items that precede it
\* included.  Nothing is ever stored, but a type that is a list or an
\* object makes the membership test in the set raise TypeError: the answer
\* is the router's 500.
C11_BadTypeRejectsBatch ==
    HasBadType => StatusOf(response) = 400 /\ Stores = <<>>

\* C12: when the backend fails on the k-th store of a validated batch, the
\* batch is aborted: the failed store is the last backend operation, the
\* answer is 500 {"error": "Cache error"} with no identifier, the metrics
\* are PostCount and PostFail, and each of the k-1 entries stored before
\* the failure is in the cache as it was stored.
C12_StoreFailureAborts ==
    (PostOnCache /\ ~BackendAnswers)
    => /\ Len(ops) <= Len(PutsList)
       /\ ops[Len(ops)][5] = "error"
       /\ \A i \in 1..(Len(ops) - 1) :
            /\ ops[i][1] = "setex" /\ ops[i][5] = "ok"
            /\ RedisHas(cache, ops[i][2])
            /\ cache[ops[i][2]] = [raw |-> ops[i][4], ttl |-> ops[i][3]]
            /\ ops[i][4] = CacheValue(PutsList[i])
       /\ StatusOf(response) = 500
       /\ BodyOf(response) = "{\"error\": \"Cache error\"}"
       /\ metrics = << <<"PostCount", Len(PutsList)>>, <<"PostFail", 1>> >>

\* the second store of a batch of two failed and the first entry is kept
C12_Witness ==
    /\ PostOnCache
    /\ Len(ops) = 2 /\ ops[1][5] = "ok" /\ ops[2][5] = "error"
    /\ RedisHas(cache, ops[1][2])
    /\ StatusOf(response) = 500

\* the keys uuid4 has given so far
Generated == {Uuid4(j) : j \in 1..nuuid}

PostSucceeded == \E i \in 1..Len(metrics) : metrics[i][1] = "PostSuccess"

\* C14: a successful POST /cache returns 200 with a responses list that has
\* exactly one {uuid} entry per element of puts, in input order: the i-th
\* uuid is the key under which the i-th item was stored; PostSuccess is
\* emitted only when every item of the batch was stored.
C14_ResponsesInOrder ==
    (PostOnCache /\ (StatusOf(response) = 200 \/ PostSucceeded))
    => /\ StatusOf(response) = 200
       /\ metrics = << <<"PostCount", Len(PutsList)>>, <<"PostSuccess", 1>> >>
       /\ Len(ops) = Len(PutsList)
       /\ json_loads(BodyOf(response)) =
            Return(PyDict(<< <<"responses",
                PyList([i \in 1..Len(PutsList) |->
                            PyDict(<< <<"uuid", PyStr(ops[i][2])>> >>)])>> >>))
       /\ \A i \in 1..Len(PutsList) :
            /\ ops[i][1] = "setex" /\ ops[i][5] = "ok"
            /\ ops[i][4] = CacheValue(PutsList[i])
            /\ RedisHas(cache, ops[i][2]) /\ cache[ops[i][2]].raw = ops[i][4]

\* a batch of two items was answered 200
C14_Witness ==
    /\ PostOnCache
    /\ StatusOf(response) = 200
    /\ PostSucceeded
    /\ Len(PutsList) = 2 /\ Len(ops) = 2

\* a stored text that is not JSON, not an object, or lacks type or value
Corrupted(raw) ==
    \/ Raised(json_loads(raw))
    \/ ~IsDict(Val(json_loads(raw)))
    \/ ~HasKey(Val(json_loads(raw)), "type")
    \/ ~HasKey(Val(json_loads(raw)), "value")

\* C15: when the get call answers, looking up an identifier with no entry
\* returns 404, and looking up an identifier whose stored text is not
\* parseable JSON, is not an object, or lacks type or value returns 500:
\* the get is the only backend operation (the TTL is not queried) and no
\* metric is emitted.
C15_NotFoundVersusCorrupted ==
    [][\A k \in LookupKeys :
        ( /\ event' = GetEvent(PyDict(<< <<"uuid", PyStr(k)>> >>))
          /\ ops' # <<>> /\ ops'[1][3] # "error" )
        => IF ~RedisHas(cache, k)
           THEN StatusOf(response') = 404
           ELSE Corrupted(cache[k].raw)
                => /\ StatusOf(response') = 500
                   /\ ops' = << <<"get", k, "hit">> >>
                   /\ metrics' = <<>>]_vars

\* the entry another writer left is no record and its lookup was answered 500
C15_Witness ==
    /\ GetOnCache
    /\ event = GetEvent(PyDict(<< <<"uuid", PyStr(ForeignKey)>> >>))
    /\ RedisHas(cache, ForeignKey)
    /\ Corrupted(cache[ForeignKey].raw)
    /\ StatusOf(response) = 500
    /\ BackendAnswers

C17_GetSuccess ==
    [][\A k \in LookupKeys :
        ( /\ event' = GetEvent(PyDict(<< <<"uuid", PyStr(k)>> >>))
          /\ RedisHas(cache, k) /\ ~Corrupted(cache[k].raw)
          /\ \A i \in 1..Len(ops') : ops'[i][Len(ops'[i])] # "error" )
        => /\ ops' = << <<"get", k, "hit">>, <<"ttl", k, "ok">> >>
           /\ metrics' = << <<"GetSuccess", 1>> >>
           /\ StatusOf(response') = 200
           /\ DictGet(response', "headers") =
                PyDict(<< <<"Cache-Control",
                            PyStr("max-age=" \o IntStr(RedisTtl(cache', k)))>>,
                          <<"Content-Type",
                            PyStr("application/"
                                  \o DictGet(Val(json_loads(cache[k].raw)), "type")[2])>> >>)
           /\ BodyOf(response') =
                json_dumps(DictGet(Val(json_loads(cache[k].raw)), "value"))]_vars

\* the xml record another writer left was looked up and answered 200
C17_Witness ==
    /\ GetOnCache
    /\ event = GetEvent(PyDict(<< <<"uuid", PyStr(ForeignKey)>> >>))
    /\ ops = << <<"get", ForeignKey, "hit">>, <<"ttl", ForeignKey, "ok">> >>
    /\ StatusOf(response) = 200
    /\ DictGet(DictGet(response, "headers"), "Content-Type") = PyStr("application/xml")
    /\ metrics = << <<"GetSuccess", 1>> >>

\* C18: if the backend raises during a GET /cache lookup, on get(key) or on
\* the ttl(key) after it, the response is 500 {"error": "Cache error"},
\* the failed call is the last backend operation, and no metric (neither
\* GetSuccess nor GetNotFound) is emitted.
C18_GetCacheError ==
    (GetOnCache /\ ~BackendAnswers)
    => /\ StatusOf(response) = 500
       /\ BodyOf(response) = "{\"error\": \"Cache error\"}"
       /\ caught = "none"
       /\ metrics = <<>>
       /\ ops[Len(ops)][3] = "error"
       /\ \A i \in 1..(Len(ops) - 1) : ops[i][3] # "error"

\* the ttl call after a get that found a record raised
C18_Witness ==
    /\ GetOnCache
    /\ Len(ops) = 2
    /\ ops[1][1] = "get" /\ ops[1][3] = "hit"
    /\ ops[2][1] = "ttl" /\ ops[2][3] = "error"
    /\ StatusOf(response) = 500

\* C19: a POST /cache whose body is missing, null or the empty string
\* emits PostFail and no other metric, returns 400
\* {"error": "Missing request body"}, and makes no backend operation.
C19_MissingBody ==
    (PostOnCache /\ EventBody \in {Absent, PyNone, PyStr("")})
    => /\ StatusOf(response) = 400
       /\ BodyOf(response) = "{\"error\": \"Missing request body\"}"
       /\ metrics = << <<"PostFail", 1>> >>
       /\ ops = <<>>

\* a POST with the empty string for a body was answered 400
C19_Witness ==
    /\ PostOnCache
    /\ EventBody = PyStr("")
    /\ StatusOf(response) = 400
    /\ metrics = << <<"PostFail", 1>> >>

\* C20: the health check makes exactly one ping and no other backend
\* operation: when the ping succeeds the response is 200 with status
\* "healthy" and cache "connected"; when the ping fails the failure reaches
\* the router and the response is the 500, never a 200.
C20_HealthCheck ==
    (Answering /\ EventPath = PyStr("/cache/health"))
    => /\ Len(ops) = 1 /\ ops[1][1] = "ping"
       /\ metrics = <<>>
       /\ IF ops[1][2] = "ok"
          THEN /\ StatusOf(response) = 200
               /\ caught = "none"
               /\ ~Raised(json_loads(BodyOf(response)))
               /\ DictGet(Val(json_loads(BodyOf(response))), "status") = PyStr("healthy")
               /\ DictGet(Val(json_loads(BodyOf(response))), "cache") = PyStr("connected")
          ELSE /\ StatusOf(response) = 500
               /\ BodyOf(response) = "{\"error\": \"Internal server error\"}"
               /\ caught = "RedisError"

\* the ping of a health check failed and the answer was the 500
C20_Witness ==
    /\ Answering
    /\ EventPath = PyStr("/cache/health")
    /\ ops = << <<"ping", "error">> >>
    /\ StatusOf(response) = 500

\* the literal error messages of the service
ErrorMessages ==
    { "Not found", "Method not allowed", "Internal server error",
      "Missing uuid parameter", "Uuid not found",
      "Invalid encoding in cached value", "Invalid cached value structure",
      "Invalid cached value format", "Cache error",
      "Missing request body", "Invalid request body" }

\* C21: every response with a status other than 200 has a body that is a
\* JSON object with exactly one field, error, whose value is one of a fixed
\* set of literal strings: no exception text and nothing of the request or
\* of the backend is in it.
C21_ErrorBodies ==
    (Answering /\ StatusOf(response) # 200)
    => /\ Len(response[2]) = 2
       /\ \E m \in ErrorMessages :
            json_loads(BodyOf(response)) = Return(PyDict(<< <<"error", PyStr(m)>> >>))

\* an exception that carries text of the request was answered with the
\* generic message
C21_Witness ==
    /\ Answering
    /\ caught = "JSONDecodeError"
    /\ BodyOf(response) = "{\"error\": \"Internal server error\"}"

\* a call of get_credentials has returned in this step
CredCall == provider'.returnedAt # provider.returnedAt

\* C22: within one warm process get_credentials signs a new token only when
\* none is memoized or the memoized one is 900 seconds old or more; a call
\* made less than 900 seconds after a signing returns the pair of that
\* signing without signing again; and the token returned is never older
\* than its 900 seconds of validity.
C22_TokenWithinWindow ==
    [][CredCall =>
        /\ (provider'.signs # provider.signs
            => \/ provider.memo = <<>>
               \/ provider.clock - provider.signedAt >= MEMO_SECONDS * TicksPerSecond)
        /\ ((provider.signs > 0
             /\ provider.clock - provider.signedAt < MEMO_SECONDS * TicksPerSecond)
            => /\ provider'.signs = provider.signs
               /\ provider'.returned = provider.returned)
        /\ provider.clock - provider'.returned[1][2].date
              <= provider'.returned[1][2].expires_in * TicksPerSecond]_vars

\* the keys the service can store under, and the key of the other writer
StorageKeys == {Uuid4(i) : i \in 1..MaxUuids} \cup {ForeignKey}

\* an invocation is answered in this step
Invoked == route = "idle" /\ route' # "idle"

\* C23: a stored item is retrievable (GET returns 200) at any time before
\* the TTL resolved at storage elapses, and after it every GET for its key
\* returns 404; no handler deletes an entry or extends its lifetime, so
\* every stored item eventually becomes unavailable.
C23_StoredUntilTtl ==
    /\ [](\A u \in DOMAIN issued :
            IF issued[u].left > 0
            THEN RedisHas(cache, u) /\ cache[u].ttl = issued[u].left
            ELSE ~RedisHas(cache, u))
    /\ [][\A u \in DOMAIN issued :
            ( /\ Invoked
              /\ event' = GetEvent(PyDict(<< <<"uuid", PyStr(u)>> >>))
              /\ \A i \in 1..Len(ops') : ops'[i][Len(ops'[i])] # "error" )
            => StatusOf(response') = (IF issued[u].left > 0 THEN 200 ELSE 404)]_vars
    /\ [][\A k \in DOMAIN cache :
            Invoked
            => IF RedisHas(cache', k)
               THEN cache'[k].raw = cache[k].raw /\ cache'[k].ttl <= cache[k].ttl
               ELSE advances' > advances]_vars
    /\ \A k \in StorageKeys : [](RedisHas(cache, k) => <>(~RedisHas(cache, k)))

\* an item was stored, its time ran out, and a GET for its key was answered 404
C23_Witness ==
    /\ GetOnCache
    /\ \E u \in DOMAIN issued :
        /\ issued[u].left = 0
        /\ event = GetEvent(PyDict(<< <<"uuid", PyStr(u)>> >>))
        /\ StatusOf(response) = 404

\* the response of the invocation answered in this step, had no emission raised
Unhindered ==
    { Val(handler(event', cache, nuuid, Env("ok", "ok", 0, "ok", failAt)).out) :
      failAt \in 0..MaxUuids }

\* C24: an exception raised by a metric emission call (GetNotFound,
\* GetSuccess, PostFail, PostCount or PostSuccess) does not change the
\* status code or body the request would otherwise have returned; a POST
\* whose items were all stored still returns 200 with their identifiers.
\* No metric call is guarded: the exception reaches the router, which
\* answers 500.
C24_EmissionFailureHarmless ==
    [][(Invoked /\ caught' = "Exception")
        => /\ response' \in Unhindered
           /\ (route' = "post" /\ ops' # <<>> /\ ops'[Len(ops')][5] = "ok")
              => StatusOf(response') = 200]_vars

\* how many of the metrics emitted have the name
Emitted(name) == Cardinality({i \in 1..Len(metrics) : metrics[i][1] = name})

\* C25: every invocation routed to the POST handler emits exactly one of
\* PostSuccess or PostFail, never both and never neither, and PostSuccess
\* is emitted if and only if the response status is 200.  A body that is
\* not JSON, or one whose validation raises, leaves the handler through an
\* exception before either is emitted.
C25_ExactlyOnePostOutcome ==
    route = "post"
    => /\ Emitted("PostSuccess") + Emitted("PostFail") = 1
       /\ (Emitted("PostSuccess") = 1 <=> StatusOf(response) = 200)

\* the key a GET /cache asks for
AskedKey == DictGet(EventQuery, "uuid")[2]

\* the number in a Cache-Control value of the form max-age=<number>
MaxAge(h) == IntOfStr(SubSeq(h, 9, Len(h)))

\* C26: in every 200 response of GET /cache the max-age value of
\* Cache-Control is an integer between 0 and 3600 and does not exceed the
\* TTL the item was stored with, also when the item expires between the
\* get(key) and the ttl(key) calls of the request.  In that case ttl(key)
\* returns -2 and the header is max-age=-2.
C26_MaxAgeInRange ==
    (GetOnCache /\ StatusOf(response) = 200)
    => LET h == DictGet(DictGet(response, "headers"), "Cache-Control")[2]
       IN  /\ SubSeq(h, 1, 8) = "max-age="
           /\ ~Raised(MaxAge(h))
           /\ Val(MaxAge(h)) >= 0 /\ Val(MaxAge(h)) <= TTL_MAX_SECONDS
           /\ AskedKey \in DOMAIN issued
              => Val(MaxAge(h))
                    <= Val(PyIntOf(DictGet(issued[AskedKey].item, "ttlseconds")))

\* raw is the text of a record with exactly the fields type and value, and
\* a type of {xml, json}
ServiceRecord(raw) ==
    /\ ~Raised(json_loads(raw))
    /\ IsDict(Val(json_loads(raw)))
    /\ Len(Val(json_loads(raw))[2]) = 2
    /\ HasKey(Val(json_loads(raw)), "type") /\ HasKey(Val(json_loads(raw)), "value")
    /\ DictGet(Val(json_loads(raw)), "type") \in {PyStr("xml"), PyStr("json")}

\* C27: after any sequence of requests, every entry the service has
\* written to the cache is a record with exactly the two fields type and
\* value, with type in {xml, json}, and was written with a TTL that is an
\* integer in 1..3600; so every 200 response of GET on a service-written
\* entry has Content-Type application/json or application/xml.
C27_ServiceWrittenEntries ==
    /\ \A i \in 1..Len(Stores) :
        ServiceRecord(Stores[i][4]) /\ Stores[i][3] \in 1..TTL_MAX_SECONDS
    /\ \A k \in DOMAIN cache \ {ForeignKey} :
        ServiceRecord(cache[k].raw) /\ cache[k].ttl \in 1..TTL_MAX_SECONDS
    /\ (GetOnCache /\ StatusOf(response) = 200 /\ AskedKey # ForeignKey)
       => DictGet(DictGet(response, "headers"), "Content-Type")
             \in {PyStr("application/json"), PyStr("application/xml")}

\* an xml item and a json item were stored by one POST, and the xml one was
\* read back
C27_Witness ==
    /\ GetOnCache /\ StatusOf(response) = 200
    /\ AskedKey \in DOMAIN issued
    /\ Cardinality(DOMAIN cache \ {ForeignKey}) >= 2
    /\ DictGet(DictGet(response, "headers"), "Content-Type") = PyStr("application/xml")

\* the POST has a body that passes validate_post_body
PassesValidation ==
    /\ HasPutsList
    /\ validate_post_body(Val(Loads(EventBody[2]))) = Return(TRUE)

\* the first emission of the invocation raised
FirstEmissionRaised == caught = "Exception" /\ metrics = <<>>

\* C28: for every POST /cache that passes validation the PostCount metric
\* is emitted exactly once with value equal to the number of elements of
\* puts, before the first store operation (when its emission raises, no
\* store has been made), and it is emitted also when the batch later aborts
\* on a backend error; a POST rejected with 400 emits no PostCount.
C28_PostCount ==
    /\ (PassesValidation /\ ~FirstEmissionRaised)
       => /\ metrics # <<>>
          /\ metrics[1] = <<"PostCount", Len(PutsList)>>
          /\ Emitted("PostCount") = 1
    /\ (PassesValidation /\ FirstEmissionRaised) => ops = <<>>
    /\ (PostOnCache /\ StatusOf(response) = 400) => Emitted("PostCount") = 0

\* a batch of two aborted on the store of its second item, after PostCount
C28_Witness ==
    /\ PassesValidation
    /\ Len(ops) = 2 /\ ops[2][5] = "error"
    /\ StatusOf(response) = 500
    /\ metrics[1] = <<"PostCount", 2>>

\* C29: health-check and GET requests, and every request answered with
\* 400, 404 or 405, leave the cache contents unchanged (no setex: an entry
\* changes only by the passing of time); a POST only adds entries under new
\* keys and never changes the value or TTL of an entry that already exists.
C29_CacheUntouched ==
    [][Invoked =>
        /\ (route' \in {"health", "get"} \/ StatusOf(response') \in {400, 404, 405})
           => /\ \A i \in 1..Len(ops') : ops'[i][1] # "setex"
              /\ DOMAIN cache' \subseteq DOMAIN cache
              /\ \A k \in DOMAIN cache' :
                    cache'[k].raw = cache[k].raw /\ cache'[k].ttl <= cache[k].ttl
              /\ advances' = advances => cache' = cache
        /\ route' = "post"
           => /\ \A k \in DOMAIN cache : RedisHas(cache', k) /\ cache'[k] = cache[k]
              /\ \A i \in 1..Len(ops') :
                    ops'[i][1] = "setex" /\ ~RedisHas(cache, ops'[i][2])]_vars

\* a POST has added its entry next to one that was there, which it left alone
C29_Witness ==
    /\ PostOnCache /\ StatusOf(response) = 200
    /\ Stores # <<>>
    /\ \E k \in DOMAIN cache \ {ForeignKey} : \A i \in 1..Len(Stores) : Stores[i][2] # k

\* the element of puts has a field other than type, value and ttlseconds
HasOtherFields(item) ==
    IsDict(item)
    /\ \E j \in 1..Len(item[2]) : item[2][j][1] \notin {"type", "value", "ttlseconds"}

\* the record of an element of puts: its type and its value, and no more
RecordOf(item) ==
    PyDict(<< <<"type", DictGet(item, "type")>>, <<"value", DictGet(item, "value")>> >>)

\* C30: fields of a puts element other than type, value and ttlseconds (for
\* example a client-supplied key) are ignored: they do not cause rejection,
\* do not influence the generated storage key, and are not part of the
\* stored record; what is stored for an element depends on its type, value
\* and ttlseconds only, so two requests that differ only in such fields
\* store identical records under service-generated keys.
C30_OtherFieldsIgnored ==
    /\ ( /\ HasPutsList
         /\ \A i \in 1..Len(PutsList) :
              /\ TypedItem(PutsList[i])
              /\ HasKey(PutsList[i], "ttlseconds")
              /\ TtlInRange(DictGet(PutsList[i], "ttlseconds"))
         /\ BackendAnswers )
       => StatusOf(response) = 200
    /\ (PostOnCache /\ StatusOf(response) = 200)
       => /\ Len(Stores) = Len(PutsList)
          /\ \A i \in 1..Len(Stores) :
                /\ Stores[i][2] = Uuid4(nuuid - Len(Stores) + i)
                /\ Stores[i][3] = Val(PyIntOf(DictGet(PutsList[i], "ttlseconds")))
                /\ json_loads(Stores[i][4]) = Return(RecordOf(PutsList[i]))

\* an element with a key of the client's was stored, under a generated key
C30_Witness ==
    /\ PostOnCache /\ StatusOf(response) = 200
    /\ Len(Stores) = 1
    /\ HasOtherFields(PutsList[1])
    /\ Stores[1][2] # DictGet(PutsList[1], "key")[2]
    /\ ~HasKey(Val(json_loads(Stores[1][4])), "key")
====
